---- MODULE Spec2Model ----
(***************************************************************************)
(* The evaluation runner (src/app.py) and the LangGraph agent it calls     *)
(* (src/ai_agent.py): run_and_submit_all fetches a list of questions,      *)
(* passes each one to BasicAgent.__call__, which runs the compiled graph   *)
(* retriever -> assistant -> (tools -> assistant)* over a MessagesState,   *)
(* and submits the collected answers.                                      *)
(*                                                                         *)
(* Text is a sequence of string fragments; concatenation is \o.  The       *)
(* content of an assistant message is split into single characters, so     *)
(* that the slice answer[14:] of BasicAgent.__call__ is a SubSeq.          *)
(***************************************************************************)
EXTENDS Integers, Sequences, FiniteSets, TLC

VARIABLES
    pc,               \* position of run_and_submit_all
    profile,          \* TRUE iff a gr.OAuthProfile was passed (user logged in)
    questions_data,   \* the fetched list
    idx,              \* position of the for loop in questions_data (1-based)
    results_log,      \* rows of the results table
    answers_payload,  \* the answers to submit
    status_message,   \* first component of the value run_and_submit_all returns
    posts,            \* requests.post calls issued so far
    gets,             \* requests.get calls issued so far
    agent,            \* TRUE iff BasicAgent() was instantiated
    sys_msg,          \* the module-level SystemMessage of ai_agent.py
    uuid,             \* number of message ids generated so far (uuid4 stand-in)
    question,         \* the text BasicAgent.__call__ was called with
    env,              \* the services of the running call: inference, retriever
    messages,         \* state["messages"] of the running graph
    node,             \* the node the graph runs next
    step,             \* supersteps the graph has finished
    started,          \* tools step: requests whose invocation has begun
    inflight,         \* tools step: invocations that have not returned yet
    calls,            \* history: the external calls of the running answer()
    outcome,          \* history: how the last answer() call ended
    prev,             \* history: the answer() call before the running one
    asked,            \* history: positions of the items passed to the agent
    answered          \* history: positions of the items the agent returned on

vars == <<pc, profile, questions_data, idx, results_log, answers_payload,
          status_message, posts, gets, agent, sys_msg, uuid, question, env, messages, node,
          step, started, inflight, calls, outcome, prev, asked, answered>>

-----------------------------------------------------------------------------
(* Bounds of the model and constants of the program *)

\* longest list of questions the scoring service returns
MaxItems == 2

\* answer[14:] in BasicAgent.__call__
PrefixOffset == 14

\* graph.invoke is called without a config, so the compiled graph runs under
\* the engine's default recursion_limit
RecursionLimit == 25

-----------------------------------------------------------------------------
(* Text *)

\* "FINAL ANSWER: " (14 characters), the marker PROMPT.txt asks for
Marker == <<"F", "I", "N", "A", "L", " ", "A", "N", "S", "W", "E", "R", ":", " ">>

\* mutant of SliceFrom: the slice starts one character early
SliceFromEarly(s, n) == IF n > Len(s) THEN <<>> ELSE SubSeq(s, n, Len(s))

\* mutant of SliceFrom: the marker is looked for, and only a marker is removed
StripMarker(s, n) ==
    IF Len(s) >= n /\ SubSeq(s, 1, n) = Marker THEN SubSeq(s, n + 1, Len(s)) ELSE s

\* Python's s[n:]
SliceFrom(s, n) == IF n >= Len(s) THEN <<>> ELSE SubSeq(s, n + 1, Len(s))

\* system_prompt, the content of PROMPT.txt
system_prompt == <<"PROMPT.txt">>

ExamplePrefix == <<"Here I provide a similar question and answer for reference: \n\n">>

-----------------------------------------------------------------------------
(* Messages *)

NoId == 0

Message(type, content, tool_calls, tool_call_id, status) ==
    [type |-> type, content |-> content, id |-> NoId, tool_calls |-> tool_calls,
     tool_call_id |-> tool_call_id, status |-> status]

SystemMessage(content) == Message("system", content, <<>>, NoId, "")

HumanMessage(content) == Message("human", content, <<>>, NoId, "")

AIMessage(content, tool_calls) == Message("ai", content, tool_calls, NoId, "")

ToolMessage(content, tool_call_id, status) ==
    Message("tool", content, <<>>, tool_call_id, status)

\* a message without the id the reducer gave it
Plain(m) == [m EXCEPT !.id = NoId]

PlainSeq(ms) == [i \in 1..Len(ms) |-> Plain(ms[i])]

-----------------------------------------------------------------------------
(* MessagesState: the messages channel and its reducer add_messages *)

\* the messages of ms without an id, among its first i
Unnamed(ms, i) == {j \in 1..i : ms[j].id = NoId}

\* assign missing ids: every message without an id gets a fresh one, in the
\* order of the list; next counts the ids given so far
AssignIds(ms, next) ==
    [msgs |-> [i \in 1..Len(ms) |->
                  IF ms[i].id = NoId
                  THEN [ms[i] EXCEPT !.id = next + Cardinality(Unnamed(ms, i))]
                  ELSE ms[i]],
     next |-> next + Cardinality(Unnamed(ms, Len(ms)))]

\* merge by id, one message of right after the other: a message whose id is
\* already in the list replaces the message with that id in place, any other
\* message is appended
RECURSIVE MergeById(_, _)
MergeById(merged, right) ==
    IF right = <<>> THEN merged
    ELSE LET m == Head(right)
             hit == {i \in 1..Len(merged) : merged[i].id = m.id}
         IN IF hit # {}
            THEN MergeById([merged EXCEPT ![CHOOSE i \in hit : TRUE] = m], Tail(right))
            ELSE MergeById(Append(merged, m), Tail(right))

\* the reducer of MessagesState.messages; right is the update a node returned
add_messages(left, right, next) ==
    LET r == AssignIds(right, next)
    IN [merged |-> MergeById(left, r.msgs), right |-> r.msgs, next |-> r.next]

-----------------------------------------------------------------------------
(* The tools of ai_agent.py *)

Call(name, args) == [name |-> name, args |-> args]

Ok(content) == [ok |-> TRUE, content |-> content]

Raise(error) == [ok |-> FALSE, content |-> <<error>>]

multiply(a, b) == Ok(<<ToString(a * b)>>)

add(a, b) == Ok(<<ToString(a + b)>>)

subtract(a, b) == Ok(<<ToString(a - b)>>)

\* a / b is Python's true division: an exact quotient q prints as "q.0"; the
\* digits of an inexact one are left symbolic
divide(a, b) ==
    IF b = 0 THEN Raise("ValueError('Cannot divide by zero.')")
    ELSE IF a % b = 0 THEN Ok(<<ToString(a \div b), ".0">>)
    ELSE Ok(<<"float(", ToString(a), "/", ToString(b), ")">>)

\* a % b with b > 0 and a any integer is TLA+'s %
modulus(a, b) ==
    IF b = 0 THEN Raise("ZeroDivisionError('integer modulo by zero')")
    ELSE IF b > 0 THEN Ok(<<ToString(a % b)>>)
    ELSE Ok(<<ToString(-((-a) % (-b)))>>)

\* the loaders reach Wikipedia and arXiv over the network: net tells whether
\* they can; the result is a dict, which the tool node prints
wiki_search(query, net) ==
    IF net THEN Ok(<<"{'wiki_results': ", query, "}">>)
    ELSE Raise("ConnectionError()")

arvix_search(query, net) ==
    IF net THEN Ok(<<"{'arvix_results': ", query, "}">>)
    ELSE Raise("ConnectionError()")

\* TavilySearchResults(max_results=3).invoke(query=query) passes no positional
\* input to invoke, so the call raises before any search is made
web_search(query, net) ==
    Raise("TypeError(\"invoke() missing 1 required positional argument: 'input'\")")

\* tools, the list bound to the model and given to the tool node
tools == {"add", "divide", "modulus", "multiply", "subtract",
          "web_search", "wiki_search", "arvix_search"}

\* the tool node's lookup by name and the call of the tool
invoke_tool(call, net) ==
    CASE call.name = "multiply" -> multiply(call.args.a, call.args.b)
      [] call.name = "add" -> add(call.args.a, call.args.b)
      [] call.name = "subtract" -> subtract(call.args.a, call.args.b)
      [] call.name = "divide" -> divide(call.args.a, call.args.b)
      [] call.name = "modulus" -> modulus(call.args.a, call.args.b)
      [] call.name = "wiki_search" -> wiki_search(call.args.query, net)
      [] call.name = "arvix_search" -> arvix_search(call.args.query, net)
      [] call.name = "web_search" -> web_search(call.args.query, net)
      [] OTHER -> Raise("not a valid tool")

\* mutant of run_one: a failure is swallowed and an empty result is reported
run_one_swallow(call, net) ==
    LET r == invoke_tool(call, net)
    IN ToolMessage(IF call.name \in tools /\ r.ok THEN r.content ELSE <<>>,
                   call.id, "success")

\* ToolNode runs one request: the result, or the error it caught, becomes a
\* ToolMessage that carries the request's id
run_one(call, net) ==
    LET r == invoke_tool(call, net)
    IN IF call.name \in tools /\ r.ok
       THEN ToolMessage(r.content, call.id, "success")
       ELSE ToolMessage(<<"Error: ">> \o r.content \o <<"\n Please fix your mistakes.">>,
                        call.id, "error")

\* mutant of ToolNode: the results are appended in reverse order
ToolNode_reversed(msgs, net) ==
    LET reqs == msgs[Len(msgs)].tool_calls
    IN [i \in 1..Len(reqs) |-> ToolMessage(invoke_tool(reqs[Len(reqs) + 1 - i], net).content,
                                           reqs[Len(reqs) + 1 - i].id, "success")]

\* ToolNode(tools): one ToolMessage per request of the last message, in the
\* order of the requests
ToolNode(msgs, net) ==
    LET reqs == msgs[Len(msgs)].tool_calls
    IN [i \in 1..Len(reqs) |-> run_one(reqs[i], net)]

\* mutant of tools_condition: the loop ends after the first assistant message
tools_condition_end(msgs) == "__end__"

\* mutant of tools_condition: the tools step follows every assistant message
tools_condition_tools(msgs) == "tools"

\* tools_condition: the branch taken after the assistant node
tools_condition(msgs) ==
    IF msgs[Len(msgs)].type = "ai" /\ msgs[Len(msgs)].tool_calls # <<>>
    THEN "tools" ELSE "__end__"

-----------------------------------------------------------------------------
(* The services an answer() call talks to.  The inference service is a      *)
(* function of the conversation it is given: it follows a script, and the  *)
(* number of assistant messages in the conversation tells the turn.        *)

ToolsTurn(cs) == [kind |-> "tools", calls |-> cs, content |-> <<>>]

FinalTurn(content) == [kind |-> "final", calls |-> <<>>, content |-> content]

ErrorTurn == [kind |-> "error", calls |-> <<>>, content |-> <<>>]

Script(prefix, loop) == [prefix |-> prefix, loop |-> loop]

\* k turns that each request call, then last forever after
Chain(k, call, last) == Script([i \in 1..k |-> ToolsTurn(<<call>>)], last)

Mul == Call("multiply", [a |-> 6, b |-> 7])
Div0 == Call("divide", [a |-> 6, b |-> 0])
Div == Call("divide", [a |-> 6, b |-> 3])
Add == Call("add", [a |-> 6, b |-> 7])
Sub == Call("subtract", [a |-> 6, b |-> 7])
Mod0 == Call("modulus", [a |-> 6, b |-> 0])
Wiki == Call("wiki_search", [query |-> "query"])
Arxiv == Call("arvix_search", [query |-> "query"])
Web == Call("web_search", [query |-> "query"])
Bogus == Call("power", [a |-> 6, b |-> 7])

Ans42 == Marker \o <<"4", "2">>
Short == <<"4", "2">>
Bare == Marker
Late == <<"T", "h", "e", " ", "a", "n", "s", "w", "e", "r", " ", "i", "s", ":", " ">>
        \o Marker \o <<"4", "2">>

FinalContents == {Ans42, Short, Bare, Late}

Done42 == FinalTurn(Ans42)

\* chain lengths: a short one, the longest the recursion limit lets finish
\* (2k + 2 supersteps with 2k + 2 <= 25), and one the limit cuts before its
\* last inference call
ChainLengths == {1, 11, 13}

Scripts ==
    {Script(<<>>, FinalTurn(c)) : c \in FinalContents}
    \cup {Chain(k, Mul, Done42) : k \in ChainLengths}
    \cup {Script(<<ToolsTurn(<<Div0>>)>>, Done42),
          Script(<<ToolsTurn(<<Sub, Mod0, Bogus>>)>>, Done42),
          Script(<<ToolsTurn(<<Wiki, Web>>), ToolsTurn(<<Arxiv, Div, Add>>)>>, Done42),
          Script(<<>>, ToolsTurn(<<Div0>>)),
          Script(<<>>, ErrorTurn),
          Script(<<ToolsTurn(<<Mul>>)>>, ErrorTurn)}

\* what vector_store.similarity_search returns
DocLists == {<<>>, <<"doc1">>, <<"doc2", "doc1">>}

Env(script, docs, net) == [script |-> script, docs |-> docs, net |-> net]

NoEnv == Env(Script(<<>>, ErrorTurn), <<>>, FALSE)

\* the services of one call: every script with a retriever that finds an
\* exemplar, and the other retrievers and a dead network with scripts that
\* depend on them
Envs ==
    {Env(s, <<"doc1">>, TRUE) : s \in Scripts}
    \cup {Env(Chain(1, Mul, Done42), d, TRUE) : d \in DocLists}
    \cup {Env(Script(<<ToolsTurn(<<Wiki, Web>>), ToolsTurn(<<Arxiv, Div, Add>>)>>, Done42),
              <<"doc1">>, FALSE)}

NumAI(msgs) == Cardinality({i \in 1..Len(msgs) : msgs[i].type = "ai"})

\* the turn of the script the service answers with
Turn(script, msgs) ==
    IF NumAI(msgs) < Len(script.prefix) THEN script.prefix[NumAI(msgs) + 1]
    ELSE script.loop

\* the ids the service gives its requests, unique within a conversation
CallId(turn, i) == 100 + 10 * turn + i

\* llm_with_tools.invoke(msgs) when it returns: the assistant message
llm_invoke(script, msgs) ==
    LET t == Turn(script, msgs)
        n == NumAI(msgs)
    IN AIMessage(t.content,
                 [i \in 1..Len(t.calls) |->
                     [id |-> CallId(n, i), name |-> t.calls[i].name,
                      args |-> t.calls[i].args]])

-----------------------------------------------------------------------------
(* What the scoring service can return for GET /questions *)

ItemA == [task_id |-> "t1", question |-> <<"q1">>]
ItemB == [task_id |-> "t2", question |-> <<"q2">>]
ItemNoId == [task_id |-> "", question |-> <<"q1">>]
ItemNoQuestion == [task_id |-> "t3"]

Items == {ItemA, ItemB, ItemNoId, ItemNoQuestion}

QuestionLists == UNION {[1..n -> Items] : n \in 0..MaxItems}

FetchErrors == {"RequestException", "JSONDecodeError", "Exception"}

SubmitOutcomes == {"ok", "HTTPError", "Timeout", "RequestException", "Exception"}

\* item.get(key) is None
Missing(item, key) == key \notin DOMAIN item

\* not task_id or question_text is None
Skipped(item) ==
    \/ Missing(item, "task_id")
    \/ item.task_id = ""
    \/ Missing(item, "question")

-----------------------------------------------------------------------------
(* History records *)

NoOutcome == [status |-> "none", answer |-> <<>>, error |-> ""]

Running == [status |-> "running", answer |-> <<>>, error |-> ""]

Returned(answer) == [status |-> "returned", answer |-> answer, error |-> ""]

Failed(error) == [status |-> "failed", answer |-> <<>>, error |-> error]

NoPrev == [used |-> FALSE, question |-> <<>>, env |-> NoEnv, messages |-> <<>>,
           outcome |-> NoOutcome]

Row(task_id, q, submitted) ==
    [task_id |-> task_id, question |-> q, submitted_answer |-> submitted]

Entry(task_id, submitted) == [task_id |-> task_id, submitted_answer |-> submitted]

-----------------------------------------------------------------------------
(* Initial state: the module ai_agent is imported, the button is clicked *)

Init ==
    /\ pc = "start"
    /\ profile \in BOOLEAN
    /\ questions_data = <<>>
    /\ idx = 1
    /\ results_log = <<>>
    /\ answers_payload = <<>>
    /\ status_message = ""
    /\ posts = 0
    /\ gets = 0
    /\ agent = FALSE
    /\ sys_msg = SystemMessage(system_prompt)
    /\ uuid = 0
    /\ question = <<>>
    /\ env = NoEnv
    /\ messages = <<>>
    /\ node = "__start__"
    /\ step = 0
    /\ started = {}
    /\ inflight = {}
    /\ calls = <<>>
    /\ outcome = NoOutcome
    /\ prev = NoPrev
    /\ asked = <<>>
    /\ answered = <<>>

\* the thread pool of the tools step
pool_vars == <<started, inflight>>

agent_vars == <<sys_msg, uuid, question, env, messages, node, step, pool_vars,
                calls, outcome, prev, asked>>

loop_vars == <<questions_data, idx, results_log, answers_payload, answered>>

\* a return of run_and_submit_all
Return(status) ==
    /\ pc' = "returned"
    /\ status_message' = status

-----------------------------------------------------------------------------
(* run_and_submit_all up to the loop *)

\* if profile: ... else: return "Please Login ..."
\* mutant of CheckLogin: the run goes on without a profile
CheckLoginIgnored ==
    /\ pc = "start"
    /\ pc' = "instantiate"
    /\ UNCHANGED <<profile, status_message, posts, gets, agent>>
    /\ UNCHANGED loop_vars
    /\ UNCHANGED agent_vars

CheckLogin ==
    /\ pc = "start"
    /\ IF profile
       THEN pc' = "instantiate" /\ UNCHANGED status_message
       ELSE Return("Please Login to Hugging Face with the button.")
    /\ UNCHANGED <<profile, posts, gets, agent>>
    /\ UNCHANGED loop_vars
    /\ UNCHANGED agent_vars

\* agent = BasicAgent(), which builds the graph
InstantiateAgent ==
    /\ pc = "instantiate"
    /\ \E ok \in BOOLEAN :
          /\ agent' = ok
          /\ IF ok
             THEN pc' = "fetch" /\ UNCHANGED status_message
             ELSE Return("Error initializing agent")
    /\ UNCHANGED <<profile, posts, gets>>
    /\ UNCHANGED loop_vars
    /\ UNCHANGED agent_vars

\* the try block around requests.get: a JSONDecodeError of requests is a
\* RequestException, so the first handler takes it
FetchFails ==
    /\ pc = "fetch"
    /\ \E e \in FetchErrors :
          Return(IF e \in {"RequestException", "JSONDecodeError"}
                 THEN "Error fetching questions"
                 ELSE "An unexpected error occurred fetching questions")
    /\ gets' = gets + 1
    /\ UNCHANGED <<profile, posts, agent>>
    /\ UNCHANGED loop_vars
    /\ UNCHANGED agent_vars

FetchQuestions ==
    /\ pc = "fetch"
    /\ \E qs \in QuestionLists :
          IF qs = <<>>
          THEN /\ Return("Fetched questions list is empty or invalid format.")
               /\ UNCHANGED questions_data
          ELSE /\ questions_data' = qs
               /\ pc' = "loop"
               /\ UNCHANGED status_message
    /\ gets' = gets + 1
    /\ UNCHANGED <<profile, posts, agent, idx, results_log, answers_payload,
                   answered>>
    /\ UNCHANGED agent_vars

-----------------------------------------------------------------------------
(* The loop over questions_data *)

InLoop == pc = "loop" /\ idx <= Len(questions_data)

\* if not task_id or question_text is None: continue
SkipItem ==
    /\ InLoop
    /\ Skipped(questions_data[idx])
    /\ idx' = idx + 1
    /\ UNCHANGED <<pc, profile, questions_data, results_log, answers_payload,
                   answered, status_message, posts, gets, agent>>
    /\ UNCHANGED agent_vars

\* the record of the call that ended, kept when the next one starts
Ended ==
    IF outcome.status = "none" THEN prev
    ELSE [used |-> TRUE, question |-> question, env |-> env,
          messages |-> PlainSeq(messages), outcome |-> outcome]

\* mutant of fresh_channel: the channel keeps the messages of the last run
kept_channel(old) == old

\* the graph is compiled without a checkpointer: every invoke starts from an
\* empty messages channel, whatever the channel held before
fresh_channel(old) == <<>>

\* agent(question_text): BasicAgent.__call__ builds the input and
\* graph.invoke writes it to the messages channel; the services the call
\* will talk to are chosen here
CallAgent ==
    /\ InLoop
    /\ ~Skipped(questions_data[idx])
    /\ \E e \in Envs : env' = e
    /\ LET q == questions_data[idx].question
           w == add_messages(fresh_channel(messages), <<HumanMessage(q)>>, uuid)
       IN /\ question' = q
          /\ messages' = w.merged
          /\ uuid' = w.next
    /\ node' = "retriever"
    /\ step' = 0
    /\ calls' = <<>>
    /\ outcome' = Running
    /\ prev' = Ended
    /\ asked' = Append(asked, idx)
    /\ pc' = "agent"
    /\ UNCHANGED <<profile, status_message, posts, gets, agent, sys_msg>>
    /\ UNCHANGED loop_vars
    /\ UNCHANGED pool_vars

\* mutant of AgentRaised: the failure is recorded and the batch is abandoned
AgentRaisedAborts(error) ==
    /\ results_log' = Append(results_log,
                             Row(questions_data[idx].task_id, question,
                                 <<"AGENT ERROR: ", error>>))
    /\ outcome' = Failed(error)
    /\ idx' = idx
    /\ pc' = "returned"
    /\ UNCHANGED <<questions_data, answers_payload, answered>>

\* mutant of AgentRaised: the error text is also put into the payload
AgentRaisedSubmitted(error) ==
    /\ results_log' = Append(results_log,
                             Row(questions_data[idx].task_id, question,
                                 <<"AGENT ERROR: ", error>>))
    /\ answers_payload' = Append(answers_payload,
                                 Entry(questions_data[idx].task_id,
                                       <<"AGENT ERROR: ", error>>))
    /\ outcome' = Failed(error)
    /\ idx' = idx + 1
    /\ pc' = "loop"
    /\ UNCHANGED <<questions_data, answered>>

\* except Exception as e: the row of a question the agent failed on
AgentRaised(error) ==
    /\ results_log' = Append(results_log,
                             Row(questions_data[idx].task_id, question,
                                 <<"AGENT ERROR: ", error>>))
    /\ outcome' = Failed(error)
    /\ idx' = idx + 1
    /\ pc' = "loop"
    /\ UNCHANGED <<questions_data, answers_payload, answered>>

\* BasicAgent.__call__ returns answer[14:], and the loop records it
AgentReturned(final) ==
    LET submitted_answer == SliceFrom(final[Len(final)].content, PrefixOffset)
    IN /\ answers_payload' = Append(answers_payload,
                                    Entry(questions_data[idx].task_id, submitted_answer))
       /\ results_log' = Append(results_log,
                                Row(questions_data[idx].task_id, question,
                                    submitted_answer))
       /\ outcome' = Returned(submitted_answer)
       /\ idx' = idx + 1
       /\ answered' = Append(answered, idx)
       /\ pc' = "loop"
       /\ UNCHANGED questions_data

-----------------------------------------------------------------------------
(* graph.invoke: the supersteps of the compiled graph *)

\* the engine stops a run that has finished more than recursion_limit
\* supersteps without reaching the end
out_of_steps == step > RecursionLimit

Stepping(n) ==
    /\ pc = "agent"
    /\ outcome.status = "running"
    /\ ~out_of_steps
    /\ node = n

\* one node has run and its update is merged into the channel
Superstep(update, next_node) ==
    LET w == add_messages(messages, update, uuid)
    IN /\ messages' = w.merged
       /\ uuid' = w.next
       /\ node' = next_node
       /\ step' = step + 1

\* mutant of retriever_body: an empty result is skipped, no exemplar is added
retriever_body_fallback(docs, msgs, sys) ==
    [ok |-> TRUE, error |-> "",
     update |-> IF docs = <<>> THEN <<sys>> \o msgs
                ELSE <<sys>> \o msgs \o <<HumanMessage(ExamplePrefix \o <<docs[1]>>)>>]

\* the body of the retriever node: similar_question[0] raises IndexError on
\* an empty result, else the node returns [sys_msg] + messages + [example_msg]
retriever_body(docs, msgs, sys) ==
    IF docs = <<>> THEN [ok |-> FALSE, error |-> "IndexError('list index out of range')",
                         update |-> <<>>]
    ELSE [ok |-> TRUE, error |-> "",
          update |-> <<sys>> \o msgs \o <<HumanMessage(ExamplePrefix \o <<docs[1]>>)>>]

\* mutant of assistant_body: the node catches the error and answers with it
assistant_body_caught(script, msgs) ==
    IF Turn(script, msgs).kind = "error"
    THEN [ok |-> TRUE, error |-> "", update |-> <<AIMessage(<<"APIError()">>, <<>>)>>]
    ELSE [ok |-> TRUE, error |-> "", update |-> <<llm_invoke(script, msgs)>>]

\* the body of the assistant node: an error of llm_with_tools.invoke leaves
\* the node, else the node returns the one message of the service
assistant_body(script, msgs) ==
    IF Turn(script, msgs).kind = "error"
    THEN [ok |-> FALSE, error |-> "APIError()", update |-> <<>>]
    ELSE [ok |-> TRUE, error |-> "", update |-> <<llm_invoke(script, msgs)>>]

retriever ==
    /\ Stepping("retriever")
    /\ calls' = Append(calls, "retrieve")
    /\ LET r == retriever_body(env.docs, messages, sys_msg)
       IN IF ~r.ok
          THEN /\ AgentRaised(r.error)
               /\ UNCHANGED <<sys_msg, uuid, messages, node, step>>
          ELSE /\ Superstep(r.update, "assistant")
               \* the reducer sets the missing id on the sys_msg object itself
               /\ sys_msg' = add_messages(messages, r.update, uuid).right[1]
               /\ UNCHANGED <<pc, loop_vars, outcome>>
    /\ UNCHANGED <<profile, status_message, posts, gets, agent, question, env,
                   prev, asked>>
    /\ UNCHANGED pool_vars

assistant ==
    /\ Stepping("assistant")
    /\ calls' = Append(calls, "infer")
    /\ LET r == assistant_body(env.script, messages)
       IN IF ~r.ok
          THEN /\ AgentRaised(r.error)
               /\ UNCHANGED <<uuid, messages, node, step>>
          ELSE /\ Superstep(r.update,
                            tools_condition(add_messages(messages, r.update, uuid).merged))
               /\ UNCHANGED <<pc, loop_vars, outcome>>
    /\ UNCHANGED <<profile, status_message, posts, gets, agent, sys_msg, question, env, prev,
                   asked>>
    /\ UNCHANGED pool_vars

\* mutant of next_request: the pool is fed from the end of the list
next_request_last(n, begun) ==
    CHOOSE i \in (1..n) \ begun : \A j \in (1..n) \ begun : j <= i

\* the request the tool node hands to its thread pool next: executor.map
\* submits the requests of the turn in their order, without waiting for the
\* ones already submitted
next_request(n, begun) ==
    CHOOSE i \in (1..n) \ begun : \A j \in (1..n) \ begun : i <= j

\* tools: the prebuilt tool node.  It runs the requests of the last assistant
\* message through a thread pool: one request more is submitted and begins
tools_dispatch ==
    /\ Stepping("tools")
    /\ LET reqs == messages[Len(messages)].tool_calls
           i == next_request(Len(reqs), started)
       IN /\ started # 1..Len(reqs)
          /\ started' = started \cup {i}
          /\ inflight' = inflight \cup {i}
          /\ calls' = Append(calls, "tool")
    /\ UNCHANGED <<pc, profile, status_message, posts, gets, agent, sys_msg, uuid, question,
                   env, messages, node, step, outcome, prev, asked>>
    /\ UNCHANGED loop_vars

\* one invocation returns, in any order; when the last one of the turn has,
\* the node returns the results, in the order of the requests
tools_node ==
    /\ Stepping("tools")
    /\ \E i \in inflight :
          LET reqs == messages[Len(messages)].tool_calls
              rest == inflight \ {i}
          IN IF started = 1..Len(reqs) /\ rest = {}
             THEN /\ Superstep(ToolNode(messages, env.net), "assistant")
                  /\ started' = {}
                  /\ inflight' = {}
             ELSE /\ inflight' = rest
                  /\ UNCHANGED <<started, uuid, messages, node, step>>
    /\ UNCHANGED <<pc, profile, status_message, posts, gets, agent, sys_msg, question, env,
                   calls, outcome, prev, asked>>
    /\ UNCHANGED loop_vars

\* the run reached the end within the limit: invoke returns the state
GraphEnd ==
    /\ pc = "agent"
    /\ outcome.status = "running"
    /\ ~out_of_steps
    /\ node = "__end__"
    /\ AgentReturned(messages)
    /\ UNCHANGED <<profile, status_message, posts, gets, agent, sys_msg, uuid, question, env,
                   messages, node, step, calls, prev, asked>>
    /\ UNCHANGED pool_vars

\* mutant of GraphRecursion: the run is cut at the limit and its state returned
GraphRecursionReturns ==
    /\ pc = "agent"
    /\ outcome.status = "running"
    /\ out_of_steps
    /\ AgentReturned(messages)
    /\ UNCHANGED <<profile, status_message, posts, gets, agent, sys_msg, uuid, question, env,
                   messages, node, step, calls, prev, asked>>
    /\ UNCHANGED pool_vars

\* the run did not: invoke raises GraphRecursionError
GraphRecursion ==
    /\ pc = "agent"
    /\ outcome.status = "running"
    /\ out_of_steps
    /\ AgentRaised("GraphRecursionError()")
    /\ UNCHANGED <<profile, status_message, posts, gets, agent, sys_msg, uuid, question, env,
                   messages, node, step, calls, prev, asked>>
    /\ UNCHANGED pool_vars

-----------------------------------------------------------------------------
(* run_and_submit_all after the loop *)

\* if not answers_payload: return
NothingToSubmit ==
    /\ pc = "loop"
    /\ idx > Len(questions_data)
    /\ answers_payload = <<>>
    /\ Return("Agent did not produce any answers to submit.")
    /\ UNCHANGED <<profile, posts, gets, agent>>
    /\ UNCHANGED loop_vars
    /\ UNCHANGED agent_vars

\* requests.post(submit_url, ...) and the handlers around it
Submit ==
    /\ pc = "loop"
    /\ idx > Len(questions_data)
    /\ answers_payload # <<>>
    /\ posts' = posts + 1
    /\ \E r \in SubmitOutcomes :
          Return(IF r = "ok" THEN "Submission Successful!"
                 ELSE IF r \in {"HTTPError", "Timeout", "RequestException"}
                 THEN "Submission Failed"
                 ELSE "An unexpected error occurred during submission")
    /\ UNCHANGED <<profile, gets, agent>>
    /\ UNCHANGED loop_vars
    /\ UNCHANGED agent_vars

Next ==
    \/ CheckLogin
    \/ InstantiateAgent
    \/ FetchFails
    \/ FetchQuestions
    \/ SkipItem
    \/ CallAgent
    \/ retriever
    \/ assistant
    \/ tools_dispatch
    \/ tools_node
    \/ GraphEnd
    \/ GraphRecursion
    \/ NothingToSubmit
    \/ Submit

Spec == Init /\ [][Next]_vars

-----------------------------------------------------------------------------
(* Helpers of the properties *)

Count(seq, x) == Cardinality({i \in 1..Len(seq) : seq[i] = x})

Indices(msgs, type) == {i \in 1..Len(msgs) : msgs[i].type = type}

\* the index of the nearest assistant message before position i, 0 if none
AssistantBefore(msgs, i) ==
    LET before == {j \in Indices(msgs, "ai") : j < i}
    IN IF before = {} THEN 0 ELSE CHOOSE j \in before : \A k \in before : k <= j

RECURSIVE SumRequests(_)
SumRequests(msgs) ==
    IF msgs = <<>> THEN 0
    ELSE Len(Head(msgs).tool_calls) + SumRequests(Tail(msgs))

StartsWith(s, p) == Len(s) >= Len(p) /\ SubSeq(s, 1, Len(p)) = p

\* an answer() call is in progress or has ended, and no other has started
InCall == outcome.status # "none"

CallOver == outcome.status \in {"returned", "failed"}

\* the first inference call is about to be issued
FirstInferenceDue ==
    /\ Stepping("assistant")
    /\ Count(calls, "infer") = 0

\* the script requests tools on its first k calls and answers on call k + 1
AnswersAfter(script, k) ==
    /\ Len(script.prefix) = k
    /\ \A i \in 1..k : script.prefix[i].kind = "tools"
    /\ script.loop.kind = "final"

-----------------------------------------------------------------------------
(* C1 *)

\* C1: when the retrieval step has completed and the first inference call is
\* issued, the conversation is exactly the system-prompt message, the user's
\* question message and the exemplar message of the top-ranked result, in
\* this order.
C1_SystemQuestionExemplar ==
    FirstInferenceDue =>
        PlainSeq(messages) = <<SystemMessage(system_prompt),
                               HumanMessage(question),
                               HumanMessage(ExamplePrefix \o <<env.docs[1]>>)>>

-----------------------------------------------------------------------------
(* C2 *)

\* C2 as stated: when the service requests tools on its first k calls and
\* answers on call k + 1 (and the retriever finds an exemplar), a run of
\* answer() makes exactly one retrieval call, first, and exactly k + 1
\* inference calls, for every k >= 0.
C2_CallsForAnyK ==
    \A k \in 0..Len(env.script.prefix) :
        (CallOver /\ env.docs # <<>> /\ AnswersAfter(env.script, k)) =>
            /\ Count(calls, "retrieve") = 1
            /\ calls[1] = "retrieve"
            /\ Count(calls, "infer") = k + 1

\* C2 amended: the same for every k whose 2k + 2 supersteps fit the recursion
\* limit of the run (k <= 11 under the default limit of 25); such a run also
\* returns, and appends one tool-result message per request, so k = 0 gives
\* one retrieval and one inference call, and the multiply round trip gives
\* 2 inference calls and 1 tool-result message.
C2_CallsWithinLimit ==
    \A k \in 0..Len(env.script.prefix) :
        (CallOver /\ env.docs # <<>> /\ AnswersAfter(env.script, k)
            /\ 2 * k + 2 <= RecursionLimit) =>
            /\ Count(calls, "retrieve") = 1
            /\ calls[1] = "retrieve"
            /\ Count(calls, "infer") = k + 1
            /\ outcome.status = "returned"
            /\ Cardinality(Indices(messages, "tool")) = SumRequests(messages)
            /\ Count(calls, "tool") = SumRequests(messages)

C2_Witness ==
    /\ CallOver
    /\ AnswersAfter(env.script, 11)
    /\ Count(calls, "infer") = 12
    /\ Count(calls, "retrieve") = 1

-----------------------------------------------------------------------------
(* C3 *)

\* the last assistant message of the conversation, 0 if none
LastAssistant(msgs) == AssistantBefore(msgs, Len(msgs) + 1)

\* C3: every tool-result message carries the id of exactly one request of the
\* nearest assistant message before it, with only tool-result messages in
\* between; and when an inference call after the first is issued, the
\* messages after the last assistant message are one tool-result message per
\* request, in the order of the requests, so that the conversation holds as
\* many tool-result messages as requests.
C3_ToolResultsMatchRequests ==
    /\ \A i \in Indices(messages, "tool") :
          LET j == AssistantBefore(messages, i)
          IN /\ j > 0
             /\ \A k \in (j + 1)..i : messages[k].type = "tool"
             /\ Cardinality({r \in 1..Len(messages[j].tool_calls) :
                    messages[j].tool_calls[r].id = messages[i].tool_call_id}) = 1
    /\ (Stepping("assistant") /\ Count(calls, "infer") >= 1) =>
          LET j == LastAssistant(messages)
              reqs == messages[j].tool_calls
          IN /\ Len(messages) = j + Len(reqs)
             /\ \A r \in 1..Len(reqs) :
                   /\ messages[j + r].type = "tool"
                   /\ messages[j + r].tool_call_id = reqs[r].id
             /\ Cardinality(Indices(messages, "tool")) = SumRequests(messages)

C3_Witness ==
    /\ Stepping("assistant")
    /\ Count(calls, "infer") = 2
    /\ Len(messages[LastAssistant(messages)].tool_calls) = 3
    /\ Cardinality(Indices(messages, "tool")) = 5

-----------------------------------------------------------------------------
(* C4 *)

\* the invocation of this request fails
Fails(req) == req.name \notin tools \/ ~invoke_tool(req, env.net).ok

\* the number of assistant messages up to position j
Rank(msgs, j) == Cardinality({a \in Indices(msgs, "ai") : a <= j})

-----------------------------------------------------------------------------
(* C5 *)

\* C5: when answer() returns, the last message of the conversation is the
\* only tool-free assistant message, and the value returned is its content
\* without the marker: content "FINAL ANSWER: " \o X returns exactly X, and
\* the multiply round trip returns "42".  The runner records that value.
C5_ReturnsStrippedFinalContent ==
    outcome.status = "returned" =>
        LET n == Len(messages)
        IN /\ messages[n].type = "ai"
           /\ messages[n].tool_calls = <<>>
           /\ \A i \in Indices(messages, "ai") : i < n => messages[i].tool_calls # <<>>
           /\ StartsWith(messages[n].content, Marker) =>
                 Marker \o outcome.answer = messages[n].content
           /\ env.script = Chain(1, Mul, Done42) => outcome.answer = <<"4", "2">>
           /\ answers_payload[Len(answers_payload)].submitted_answer = outcome.answer

C5_Witness ==
    /\ outcome.status = "returned"
    /\ env.script = Chain(1, Mul, Done42)
    /\ messages[Len(messages)].content = Ans42
    /\ outcome.answer = <<"4", "2">>

-----------------------------------------------------------------------------
(* C6 *)

\* C6: when the retriever returns an empty list, the call makes no inference
\* call and no tool call and never returns an answer; the retrieval step
\* ends it with an error.
C6_EmptyRetrievalIsFatal ==
    (InCall /\ env.docs = <<>>) =>
        /\ Count(calls, "infer") = 0
        /\ Count(calls, "tool") = 0
        /\ outcome.status # "returned"
        /\ Count(calls, "retrieve") >= 1 =>
              /\ calls = <<"retrieve">>
              /\ outcome = Failed("IndexError('list index out of range')")
              /\ Indices(messages, "ai") = {}

C6_Witness ==
    /\ env.docs = <<>>
    /\ calls = <<"retrieve">>
    /\ outcome.status = "failed"

-----------------------------------------------------------------------------
(* C7 *)

\* the turn the service takes on its c-th call of a run
TurnAt(script, c) ==
    IF c <= Len(script.prefix) THEN script.prefix[c] ELSE script.loop

\* C7: an inference call on which the service raises is the last call of the
\* run: answer() fails with the service's error, no assistant message is
\* appended for the call, and no inference or tool call follows.
C7_InferenceErrorPropagates ==
    \A c \in 1..Count(calls, "infer") :
        (InCall /\ TurnAt(env.script, c).kind = "error") =>
            /\ c = Count(calls, "infer")
            /\ calls[Len(calls)] = "infer"
            /\ NumAI(messages) = c - 1
            /\ outcome = Failed("APIError()")

C7_Witness ==
    /\ outcome = Failed("APIError()")
    /\ Count(calls, "infer") = 2
    /\ Count(calls, "tool") = 1
    /\ NumAI(messages) = 1

-----------------------------------------------------------------------------
(* C8 *)

Range(seq) == {seq[i] : i \in 1..Len(seq)}

ErrorRow(row) == StartsWith(row.submitted_answer, <<"AGENT ERROR: ">>)

\* C8: a failure of the agent on one question gives that question a row
\* whose submitted answer is "AGENT ERROR: ..." and does not end the batch:
\* every item of the fetched list that is not skipped is passed to the agent,
\* and the runner returns only after the last item.
C8_FailureDoesNotAbortBatch ==
    /\ outcome.status = "failed" =>
          /\ results_log # <<>>
          /\ results_log[Len(results_log)] =
                Row(questions_data[asked[Len(asked)]].task_id, question,
                    <<"AGENT ERROR: ", outcome.error>>)
          /\ pc \in {"loop", "agent", "returned"}
    /\ \A i \in 1..Len(questions_data) :
          (i < idx /\ ~Skipped(questions_data[i])) => i \in Range(asked)
    /\ (pc = "returned" /\ questions_data # <<>>) => idx = Len(questions_data) + 1
    /\ Len(results_log) = Len(asked) - (IF outcome.status = "running" THEN 1 ELSE 0)

C8_Witness ==
    /\ asked = <<1, 2>>
    /\ Len(results_log) = 2
    /\ ErrorRow(results_log[1])
    /\ ~ErrorRow(results_log[2])
    /\ pc = "returned"

-----------------------------------------------------------------------------
(* C9 *)

IsPrefix(s, t) == Len(s) <= Len(t) /\ SubSeq(t, 1, Len(s)) = s

\* the running call has the question and the services of the call before it
SameAsBefore == prev.used /\ prev.question = question /\ prev.env = env

\* C9: a call of answer() with the question and the (deterministic) services
\* of the call before it goes through the same conversation and ends the
\* same way: its messages (apart from the random ids the engine gives them)
\* are at every moment a prefix of the earlier call's, and at the end the
\* same sequence, with the same answer or error.
C9_SameQuestionSameConversation ==
    /\ (InCall /\ SameAsBefore) => IsPrefix(PlainSeq(messages), prev.messages)
    /\ (CallOver /\ SameAsBefore) =>
          /\ PlainSeq(messages) = prev.messages
          /\ outcome = prev.outcome

C9_Witness ==
    /\ CallOver
    /\ SameAsBefore
    /\ outcome.status = "returned"
    /\ Cardinality(Indices(messages, "tool")) = 5

-----------------------------------------------------------------------------
(* C10 *)

\* the service requests a tool on every inference call
AlwaysTools(script) ==
    /\ \A i \in 1..Len(script.prefix) : script.prefix[i].kind = "tools"
    /\ script.loop.kind = "tools"

\* a call whose service never answers is running or has ended
LoopingRun == InCall /\ AlwaysTools(env.script) /\ env.docs # <<>>

\* C10: against a service that requests a tool on every inference call, a
\* run of answer() (whose retrieval found an exemplar) does not loop for
\* ever.  Every step of the run finishes one more superstep, begins or ends
\* one tool invocation of the tools step it is in, or ends the run,
\* the run never has more than RecursionLimit + 1 supersteps behind it, it
\* is never stuck, and it never returns: when it is over it has failed with
\* the engine's GraphRecursionError, the LoopExceeded condition of the
\* specification.
C10_LoopExceeded ==
    /\ [](LoopingRun =>
            /\ step <= RecursionLimit + 1
            /\ 2 * Count(calls, "infer") <= RecursionLimit + 1
            /\ outcome.status # "returned"
            /\ outcome.status = "failed" => outcome = Failed("GraphRecursionError()")
            /\ outcome.status = "running" =>
                  /\ pc = "agent"
                  /\ out_of_steps \/ node \in {"retriever", "assistant", "tools"})
    /\ [][(LoopingRun /\ outcome.status = "running") =>
            \/ step' = step + 1 /\ outcome' = outcome /\ env' = env
            \/ /\ node = "tools" /\ step' = step /\ outcome' = outcome /\ env' = env
               /\ \/ Cardinality(started') = Cardinality(started) + 1
                  \/ Cardinality(inflight') = Cardinality(inflight) - 1
            \/ out_of_steps /\ outcome' = Failed("GraphRecursionError()")]_vars

C10_Witness ==
    /\ AlwaysTools(env.script)
    /\ outcome = Failed("GraphRecursionError()")
    /\ Count(calls, "infer") > 1

-----------------------------------------------------------------------------
(* C11 *)

\* an assistant message without requests: nothing comes after it, and every
\* inference call and tool invocation of the run is accounted for by the
\* messages before it
NothingAfterToolFree ==
    \A i \in Indices(messages, "ai") :
        messages[i].tool_calls = <<>> =>
            /\ i = Len(messages)
            /\ Count(calls, "infer") = NumAI(messages)
            /\ Count(calls, "tool") = SumRequests(messages)
            /\ ~Stepping("assistant")
            /\ ~Stepping("tools")

\* the tools step has run for the assistant message at j and an inference
\* call has been issued after it
ToolsAndInferenceAfter(j) ==
    /\ \A r \in 1..Len(messages[j].tool_calls) :
          /\ j + r <= Len(messages)
          /\ messages[j + r].type = "tool"
    /\ Count(calls, "infer") > Rank(messages, j)

-----------------------------------------------------------------------------
(* C12 *)

\* tool invocations are begun or running only inside the tools step of the
\* last assistant message, whose inference call has completed (every
\* inference call issued so far has its assistant message in the
\* conversation); they are begun in the order of the requests
ToolsOnlyInToolsStep ==
    /\ inflight \subseteq started
    /\ started = 1..Cardinality(started)
    /\ started # {} =>
          /\ Stepping("tools")
          /\ LastAssistant(messages) = Len(messages)
          /\ Cardinality(started) <= Len(messages[Len(messages)].tool_calls)
          /\ Count(calls, "infer") = NumAI(messages)
          /\ Count(calls, "tool") + Len(messages[Len(messages)].tool_calls)
                = SumRequests(messages) + Cardinality(started)

-----------------------------------------------------------------------------
(* C13 *)

\* the marker occurs somewhere in s
HasMarker(s) ==
    \E k \in 1..Len(s) :
        k + Len(Marker) - 1 <= Len(s) /\ SubSeq(s, k, k + Len(Marker) - 1) = Marker

\* C13: answer() returns the final content c with its first 14 characters
\* removed, whatever they are: the value has the characters of c from the
\* 15th on and nothing else, content of 14 characters or fewer gives the
\* empty string, and a marker that occurs after the 14th character is still
\* in the value.
C13_FixedOffsetStrip ==
    outcome.status = "returned" =>
        LET c == messages[Len(messages)].content
            a == outcome.answer
        IN /\ Len(a) = IF Len(c) > PrefixOffset THEN Len(c) - PrefixOffset ELSE 0
           /\ \A i \in 1..Len(a) : a[i] = c[i + PrefixOffset]
           /\ Len(c) <= PrefixOffset => a = <<>>
           /\ (\E k \in PrefixOffset + 1..Len(c) :
                  /\ k + Len(Marker) - 1 <= Len(c)
                  /\ SubSeq(c, k, k + Len(Marker) - 1) = Marker) => HasMarker(a)

C13_Witness ==
    /\ outcome.status = "returned"
    /\ ~StartsWith(messages[Len(messages)].content, Marker)
    /\ Len(messages[Len(messages)].content) > PrefixOffset
    /\ HasMarker(outcome.answer)
    /\ outcome.answer = <<" ">> \o Marker \o <<"4", "2">>

-----------------------------------------------------------------------------
(* C14 *)

\* the positions of the fetched list the loop is done with
Processed == 1..(idx - 1)

\* the rows of the results table that are not error rows, in their order
RECURSIVE AnswerRows(_)
AnswerRows(rows) ==
    IF rows = <<>> THEN <<>>
    ELSE IF ErrorRow(Head(rows)) THEN AnswerRows(Tail(rows))
    ELSE <<Head(rows)>> \o AnswerRows(Tail(rows))

\* C14: at every point of the run the payload has exactly one entry, in
\* fetch order, for each processed item with a non-empty task_id and a
\* question on which the agent returned; items that failed or were skipped
\* have none; and every entry has a results row with its task id and its
\* answer.
C14_PayloadMatchesAnswered ==
    /\ Len(answers_payload) = Len(answered)
    /\ \A k \in 1..Len(answered) :
          /\ answered[k] \in Processed
          /\ ~Skipped(questions_data[answered[k]])
          /\ answers_payload[k].task_id = questions_data[answered[k]].task_id
          /\ \A m \in 1..Len(answered) : k < m => answered[k] < answered[m]
    /\ Range(answered) \subseteq Range(asked)
    /\ Len(results_log) = Len(asked) - (IF outcome.status = "running" THEN 1 ELSE 0)
    /\ \A k \in 1..Len(results_log) :
          ErrorRow(results_log[k]) <=> asked[k] \notin Range(answered)
    /\ LET rows == AnswerRows(results_log)
       IN /\ Len(rows) = Len(answers_payload)
          /\ \A k \in 1..Len(rows) :
                /\ rows[k].task_id = answers_payload[k].task_id
                /\ rows[k].submitted_answer = answers_payload[k].submitted_answer

C14_Witness ==
    /\ Len(questions_data) = 2
    /\ idx = 3
    /\ asked = <<1, 2>>
    /\ answered = <<2>>
    /\ ErrorRow(results_log[1])
    /\ answers_payload = <<Entry(questions_data[2].task_id, <<"4", "2">>)>>

-----------------------------------------------------------------------------
(* C15 *)

\* every fetched question has been processed: the loop is past the last
\* item, each item was skipped or passed to the agent, and the agent is back
AllProcessed ==
    /\ idx = Len(questions_data) + 1
    /\ outcome.status # "running"
    /\ \A i \in 1..Len(questions_data) :
          Skipped(questions_data[i]) \/ i \in Range(asked)
    /\ Len(results_log) = Len(asked)

\* C15: in one run the submission POST is issued at most once, only after
\* every fetched question has been processed, and only when the user is
\* logged in, the agent was instantiated, the fetch succeeded with a
\* non-empty list and at least one answer was produced; without a login no
\* network call (fetch, agent, submit) is made at all.
C15_SubmitOnceAfterAll ==
    /\ posts <= 1
    /\ gets <= 1
    /\ posts = 1 =>
          /\ pc = "returned"
          /\ profile
          /\ agent
          /\ gets = 1
          /\ questions_data # <<>>
          /\ AllProcessed
          /\ answers_payload # <<>>
    /\ asked # <<>> => profile /\ agent /\ gets = 1 /\ questions_data # <<>>
    /\ ~profile =>
          /\ posts = 0
          /\ gets = 0
          /\ ~agent
          /\ asked = <<>>
          /\ calls = <<>>
          /\ outcome = NoOutcome
          /\ pc \in {"start", "returned"}

C15_Witness ==
    /\ posts = 1
    /\ Len(questions_data) = 2
    /\ asked = <<1, 2>>
    /\ Len(answers_payload) = 1
    /\ status_message = "Submission Successful!"

=============================================================================
